---------------------------- MODULE Spec2Model ----------------------------
(***************************************************************************)
(* The training session of src/App.tsx: the React state of the App         *)
(* component, its two async handlers (startNewSession, handleEvaluate),    *)
(* the step buttons, and the countdown effect.                             *)
(*                                                                         *)
(* A handler runs to its first await in one step; the continuation after   *)
(* the await (try / catch / finally) runs in one later step, when the      *)
(* promise settles.  Calls in flight are kept in fetchCalls and            *)
(* evaluateCalls.  A nullable value is a sequence: << >> is null and <<v>> *)
(* is the value v.  A text is a sequence of one-character strings.         *)
(***************************************************************************)
EXTENDS Integers, Sequences, FiniteSets, TLC

VARIABLES
    step,           \* useState<TrainingStep>
    article,        \* useState<NewsArticle | null>
    oneSentence,    \* useState('')
    threeLines,     \* useState('')
    feedback,       \* useState<EvaluationResult | null>
    loading,        \* useState(false)
    error,          \* useState<string | null>
    countdown,      \* useState(10)
    timers,         \* number of intervals registered by the countdown effect
    fetchCalls,     \* fetchRandomChosunArticle() promises not yet settled
    evaluateCalls,  \* evaluateSummaries(...) promises not yet settled
    last            \* history: the handler or continuation that ran last

session == <<step, article, oneSentence, threeLines, feedback, loading, error, countdown>>
vars == <<step, article, oneSentence, threeLines, feedback, loading, error, countdown,
          timers, fetchCalls, evaluateCalls, last>>

----------------------------------------------------------------------------
(* Bounds of the model *)

MaxFetchCalls == 2
MaxEvaluateCalls == 2

----------------------------------------------------------------------------
(* src/types.ts *)

INTRO == "INTRO"
FETCHING == "FETCHING"
READING == "READING"
SUMMARY_ONE == "SUMMARY_ONE"
SUMMARY_THREE == "SUMMARY_THREE"
FEEDBACK == "FEEDBACK"

TrainingStep == {INTRO, FETCHING, READING, SUMMARY_ONE, SUMMARY_THREE, FEEDBACK}

null == << >>
Some(v) == << v >>

\* What fetchRandomChosunArticle can resolve with.
NewsArticle ==
    { [title |-> "t1", content |-> "c1", url |-> "u1", source |-> "chosun"],
      [title |-> "t2", content |-> "c2", url |-> "u2", source |-> "chosun"] }

SummaryFeedback(s) == [score |-> s, comments |-> "k", suggestedSummary |-> "m"]

\* What evaluateSummaries can resolve with.
EvaluationResult ==
    { [oneSentenceFeedback |-> SummaryFeedback(82), threeLinesFeedback |-> SummaryFeedback(75),
       estimatedAge |-> 34, ageComment |-> "a"],
      [oneSentenceFeedback |-> SummaryFeedback(40), threeLinesFeedback |-> SummaryFeedback(55),
       estimatedAge |-> 12, ageComment |-> "b"] }

FETCH_ERROR == "fetch-error-message"
EVALUATE_ERROR == "evaluate-error-message"

INITIAL_COUNTDOWN == 10

----------------------------------------------------------------------------
(* Texts and the two validity flags *)

RECURSIVE Rep(_, _)
Rep(c, n) == IF n = 0 THEN << >> ELSE <<c>> \o Rep(c, n - 1)

WhiteSpace == {" ", "\n", "\t"}

RECURSIVE TrimStart(_)
TrimStart(t) ==
    IF t # << >> /\ Head(t) \in WhiteSpace THEN TrimStart(Tail(t)) ELSE t

RECURSIVE TrimEnd(_)
TrimEnd(t) ==
    IF t # << >> /\ t[Len(t)] \in WhiteSpace THEN TrimEnd(SubSeq(t, 1, Len(t) - 1)) ELSE t

\* String.prototype.trim
trim(t) == TrimEnd(TrimStart(t))

\* String.prototype.includes, for a one-character needle
includes(t, c) == \E i \in 1..Len(t) : t[i] = c

ONE_SENTENCE_MIN == 10
THREE_LINES_MIN == 20

isOneSentenceValid(t) == Len(trim(t)) >= ONE_SENTENCE_MIN /\ includes(t, ".")
isThreeLinesValid(t) == Len(trim(t)) >= THREE_LINES_MIN /\ includes(t, ".")

\* The texts the user types in this model.
ShortText == <<"a", "b", ".">>
PaddedText == Rep(" ", 4) \o Rep("a", 5) \o <<".">> \o Rep(" ", 4)
SentenceText == Rep("a", 9) \o <<".">>
LongText == Rep("a", 9) \o <<".", "\n">> \o Rep("b", 9) \o <<".">>

OneSentenceTexts == {ShortText, PaddedText, SentenceText}
ThreeLinesTexts == {SentenceText, LongText}

----------------------------------------------------------------------------
(* The countdown effect: useEffect(..., [step, countdown]) *)

\* CountdownEffect as it would be if the effect returned no cleanup.
CountdownEffect_NoCleanup ==
    timers' = IF <<step', countdown'>> = <<step, countdown>>
              THEN timers
              ELSE IF step' = FETCHING /\ countdown' > 0 THEN timers + 1 ELSE timers

\* CountdownEffect as it would be if the effect did not test the step.
CountdownEffect_AnyStep ==
    timers' = IF <<step', countdown'>> = <<step, countdown>>
              THEN timers
              ELSE IF countdown' > 0 THEN 1 ELSE 0

\* The effect runs again (cleanup first) only when a dependency changed.
CountdownEffect ==
    timers' = IF <<step', countdown'>> = <<step, countdown>>
              THEN timers
              ELSE IF step' = FETCHING /\ countdown' > 0 THEN 1 ELSE 0

\* Tick as it would be if reaching 0 gave the fetch up.
Tick_TimesOut ==
    /\ timers > 0
    /\ countdown' = (IF countdown > 0 THEN countdown - 1 ELSE 0)
    /\ step' = (IF countdown' = 0 THEN INTRO ELSE step)
    /\ error' = (IF countdown' = 0 THEN Some(FETCH_ERROR) ELSE error)
    /\ loading' = (IF countdown' = 0 THEN FALSE ELSE loading)
    /\ UNCHANGED <<article, oneSentence, threeLines, feedback>>
    /\ UNCHANGED <<fetchCalls, evaluateCalls>>
    /\ CountdownEffect
    /\ last' = [op |-> "tick", from |-> step, stale |-> FALSE, call |-> null, result |-> null]

\* The interval's callback: setCountdown(prev => prev > 0 ? prev - 1 : 0)
Tick ==
    /\ timers > 0
    /\ countdown' = (IF countdown > 0 THEN countdown - 1 ELSE 0)
    /\ UNCHANGED <<step, article, oneSentence, threeLines, feedback, loading, error>>
    /\ UNCHANGED <<fetchCalls, evaluateCalls>>
    /\ CountdownEffect
    /\ last' = [op |-> "tick", from |-> step, stale |-> FALSE, call |-> null, result |-> null]

----------------------------------------------------------------------------
(* Calls in flight *)

\* s without its i-th element
Remove(s, i) == SubSeq(s, 1, i - 1) \o SubSeq(s, i + 1, Len(s))

\* A call becomes stale when startNewSession runs after it was started.
Superseded(calls) == [i \in 1..Len(calls) |-> [calls[i] EXCEPT !.stale = TRUE]]

----------------------------------------------------------------------------
(* startNewSession *)

\* StartEnabled as it would be if the error box had no retry button.
StartEnabled_NoRetry ==
    \/ step = INTRO
    \/ step # INTRO /\ step # FETCHING
    \/ ~loading /\ article # null /\ step = FEEDBACK /\ feedback # null

\* The buttons that call startNewSession: the Intro button, the header
\* button, the button of the error box, the button of the Feedback screen.
StartEnabled ==
    \/ step = INTRO
    \/ step # INTRO /\ step # FETCHING
    \/ error # null
    \/ ~loading /\ article # null /\ step = FEEDBACK /\ feedback # null

\* ResetSession as it would be without setOneSentence('') and setThreeLines('').
ResetSession_KeepsDrafts ==
    /\ article' = null
    /\ UNCHANGED <<oneSentence, threeLines>>
    /\ feedback' = null
    /\ countdown' = INITIAL_COUNTDOWN
    /\ error' = null

\* "1. Reset all relevant states for a fresh start"
ResetSession ==
    /\ article' = null
    /\ oneSentence' = << >>
    /\ threeLines' = << >>
    /\ feedback' = null
    /\ countdown' = INITIAL_COUNTDOWN
    /\ error' = null

StartNewSession ==
    /\ StartEnabled
    /\ Len(fetchCalls) < MaxFetchCalls
    /\ ResetSession
    /\ step' = FETCHING
    /\ loading' = TRUE
    /\ fetchCalls' = Append(Superseded(fetchCalls), [stale |-> FALSE])
    /\ evaluateCalls' = Superseded(evaluateCalls)
    /\ CountdownEffect
    /\ last' = [op |-> "startNewSession", from |-> step, stale |-> FALSE,
                call |-> null, result |-> null]

\* FetchTry as it would be without setStep(READING).
FetchTry_StaysOnStep(data) ==
    /\ article' = Some(data)
    /\ UNCHANGED step

\* FetchTry as it would be without setArticle(data).
FetchTry_NoArticle(data) ==
    /\ UNCHANGED article
    /\ step' = READING

\* try: setArticle(data); setStep(READING)   finally: setLoading(false)
FetchTry(data) ==
    /\ article' = Some(data)
    /\ step' = READING

\* FetchCatch as it would be without setStep(INTRO).
FetchCatch_StaysOnStep ==
    /\ error' = Some(FETCH_ERROR)
    /\ UNCHANGED step

\* catch: setError(...); setStep(INTRO)
FetchCatch ==
    /\ error' = Some(FETCH_ERROR)
    /\ step' = INTRO

FetchFinally == loading' = FALSE

FetchSucceeded(i, data) ==
    /\ FetchTry(data)
    /\ FetchFinally
    /\ UNCHANGED <<oneSentence, threeLines, feedback, error, countdown>>
    /\ fetchCalls' = Remove(fetchCalls, i)
    /\ UNCHANGED evaluateCalls
    /\ CountdownEffect
    /\ last' = [op |-> "fetchSucceeded", from |-> step, stale |-> fetchCalls[i].stale,
                call |-> null, result |-> Some(data)]

FetchFailed(i) ==
    /\ FetchCatch
    /\ FetchFinally
    /\ UNCHANGED <<article, oneSentence, threeLines, feedback, countdown>>
    /\ fetchCalls' = Remove(fetchCalls, i)
    /\ UNCHANGED evaluateCalls
    /\ CountdownEffect
    /\ last' = [op |-> "fetchFailed", from |-> step, stale |-> fetchCalls[i].stale,
                call |-> null, result |-> null]

----------------------------------------------------------------------------
(* The step screens, rendered when !loading && article && step !== INTRO *)

ScreenShown == ~loading /\ article # null /\ step # INTRO

UserStep(op, to) ==
    /\ step' = to
    /\ UNCHANGED <<article, oneSentence, threeLines, feedback, loading, error, countdown>>
    /\ UNCHANGED <<fetchCalls, evaluateCalls>>
    /\ CountdownEffect
    /\ last' = [op |-> op, from |-> step, stale |-> FALSE, call |-> null, result |-> null]

AdvanceToSummaryOne ==
    /\ ScreenShown /\ step = READING
    /\ UserStep("advanceToSummaryOne", SUMMARY_ONE)

GoBackToReading ==
    /\ ScreenShown /\ step = SUMMARY_ONE
    /\ UserStep("goBackToReading", READING)

\* AdvanceToSummaryThree as it would be without disabled={!isOneSentenceValid}.
AdvanceToSummaryThree_Ungated ==
    /\ ScreenShown /\ step = SUMMARY_ONE
    /\ UserStep("advanceToSummaryThree", SUMMARY_THREE)

AdvanceToSummaryThree ==
    /\ ScreenShown /\ step = SUMMARY_ONE
    /\ isOneSentenceValid(oneSentence)
    /\ UserStep("advanceToSummaryThree", SUMMARY_THREE)

GoBackToSummaryOne ==
    /\ ScreenShown /\ step = SUMMARY_THREE
    /\ UserStep("goBackToSummaryOne", SUMMARY_ONE)

\* EditOneSentence as it would be if the textarea refused an invalid text.
EditOneSentence_Validated(t) ==
    /\ ScreenShown /\ step = SUMMARY_ONE
    /\ isOneSentenceValid(t)
    /\ oneSentence' = t
    /\ UNCHANGED <<step, article, threeLines, feedback, loading, error, countdown>>
    /\ UNCHANGED <<fetchCalls, evaluateCalls>>
    /\ CountdownEffect
    /\ last' = [op |-> "editOneSentence", from |-> step, stale |-> FALSE,
                call |-> null, result |-> Some(t)]

EditOneSentence(t) ==
    /\ ScreenShown /\ step = SUMMARY_ONE
    /\ oneSentence' = t
    /\ UNCHANGED <<step, article, threeLines, feedback, loading, error, countdown>>
    /\ UNCHANGED <<fetchCalls, evaluateCalls>>
    /\ CountdownEffect
    /\ last' = [op |-> "editOneSentence", from |-> step, stale |-> FALSE,
                call |-> null, result |-> Some(t)]

EditThreeLines(t) ==
    /\ ScreenShown /\ step = SUMMARY_THREE
    /\ threeLines' = t
    /\ UNCHANGED <<step, article, oneSentence, feedback, loading, error, countdown>>
    /\ UNCHANGED <<fetchCalls, evaluateCalls>>
    /\ CountdownEffect
    /\ last' = [op |-> "editThreeLines", from |-> step, stale |-> FALSE,
                call |-> null, result |-> Some(t)]

----------------------------------------------------------------------------
(* handleEvaluate *)

EvaluateCall ==
    [article |-> article[1], oneSentence |-> oneSentence, threeLines |-> threeLines,
     stale |-> FALSE]

\* HandleEvaluate as it would be if submitting also emptied the two textareas.
HandleEvaluate_ClearsDrafts ==
    /\ ScreenShown /\ step = SUMMARY_THREE
    /\ isThreeLinesValid(threeLines)
    /\ Len(evaluateCalls) < MaxEvaluateCalls
    /\ article # null
    /\ loading' = TRUE
    /\ evaluateCalls' = Append(evaluateCalls, EvaluateCall)
    /\ oneSentence' = << >>
    /\ threeLines' = << >>
    /\ UNCHANGED <<step, article, feedback, error, countdown>>
    /\ UNCHANGED fetchCalls
    /\ CountdownEffect
    /\ last' = [op |-> "handleEvaluate", from |-> step, stale |-> FALSE,
                call |-> Some(EvaluateCall), result |-> null]

HandleEvaluate ==
    /\ ScreenShown /\ step = SUMMARY_THREE
    /\ isThreeLinesValid(threeLines)
    /\ Len(evaluateCalls) < MaxEvaluateCalls
    /\ article # null                      \* if (!article) return;
    /\ loading' = TRUE
    /\ evaluateCalls' = Append(evaluateCalls, EvaluateCall)
    /\ UNCHANGED <<step, article, oneSentence, threeLines, feedback, error, countdown>>
    /\ UNCHANGED fetchCalls
    /\ CountdownEffect
    /\ last' = [op |-> "handleEvaluate", from |-> step, stale |-> FALSE,
                call |-> Some(EvaluateCall), result |-> null]

\* EvaluateTry as it would be with setError(null) on success.
EvaluateTry_ClearsError(result) ==
    /\ feedback' = Some(result)
    /\ step' = FEEDBACK
    /\ error' = null

\* try: setFeedback(result); setStep(FEEDBACK)
EvaluateTry(result) ==
    /\ feedback' = Some(result)
    /\ step' = FEEDBACK
    /\ UNCHANGED error

\* catch: setError(...)
EvaluateCatch ==
    /\ error' = Some(EVALUATE_ERROR)
    /\ UNCHANGED <<step, feedback>>

EvaluateFinally == loading' = FALSE

EvaluateSucceeded(i, result) ==
    /\ EvaluateTry(result)
    /\ EvaluateFinally
    /\ UNCHANGED <<article, oneSentence, threeLines, countdown>>
    /\ evaluateCalls' = Remove(evaluateCalls, i)
    /\ UNCHANGED fetchCalls
    /\ CountdownEffect
    /\ last' = [op |-> "evaluateSucceeded", from |-> step, stale |-> evaluateCalls[i].stale,
                call |-> Some(evaluateCalls[i]), result |-> Some(result)]

EvaluateFailed(i) ==
    /\ EvaluateCatch
    /\ EvaluateFinally
    /\ UNCHANGED <<article, oneSentence, threeLines, countdown>>
    /\ evaluateCalls' = Remove(evaluateCalls, i)
    /\ UNCHANGED fetchCalls
    /\ CountdownEffect
    /\ last' = [op |-> "evaluateFailed", from |-> step, stale |-> evaluateCalls[i].stale,
                call |-> Some(evaluateCalls[i]), result |-> null]

----------------------------------------------------------------------------
(* The component *)

\* Init as it would be with useState(0) for the countdown.
Init_CountdownZero ==
    /\ step = INTRO
    /\ article = null
    /\ oneSentence = << >>
    /\ threeLines = << >>
    /\ feedback = null
    /\ loading = FALSE
    /\ error = null
    /\ countdown = 0
    /\ timers = 0
    /\ fetchCalls = << >>
    /\ evaluateCalls = << >>
    /\ last = [op |-> "mount", from |-> INTRO, stale |-> FALSE, call |-> null, result |-> null]

Init ==
    /\ step = INTRO
    /\ article = null
    /\ oneSentence = << >>
    /\ threeLines = << >>
    /\ feedback = null
    /\ loading = FALSE
    /\ error = null
    /\ countdown = INITIAL_COUNTDOWN
    /\ timers = 0
    /\ fetchCalls = << >>
    /\ evaluateCalls = << >>
    /\ last = [op |-> "mount", from |-> INTRO, stale |-> FALSE, call |-> null, result |-> null]

Next ==
    \/ StartNewSession
    \/ \E i \in 1..Len(fetchCalls) : \E data \in NewsArticle : FetchSucceeded(i, data)
    \/ \E i \in 1..Len(fetchCalls) : FetchFailed(i)
    \/ AdvanceToSummaryOne
    \/ GoBackToReading
    \/ \E t \in OneSentenceTexts : EditOneSentence(t)
    \/ AdvanceToSummaryThree
    \/ GoBackToSummaryOne
    \/ \E t \in ThreeLinesTexts : EditThreeLines(t)
    \/ HandleEvaluate
    \/ \E i \in 1..Len(evaluateCalls) : \E result \in EvaluationResult : EvaluateSucceeded(i, result)
    \/ \E i \in 1..Len(evaluateCalls) : EvaluateFailed(i)
    \/ Tick

Spec == Init /\ [][Next]_vars

TypeOK ==
    /\ step \in TrainingStep
    /\ loading \in BOOLEAN
    /\ countdown \in 0..INITIAL_COUNTDOWN
    /\ timers \in 0..1
    /\ Len(fetchCalls) <= MaxFetchCalls
    /\ Len(evaluateCalls) <= MaxEvaluateCalls

----------------------------------------------------------------------------
(* Stale calls *)

FetchResolved(l) == l.op \in {"fetchSucceeded", "fetchFailed"}

\* C1: a provider call that was superseded by a later start-new-session
\* changes, when it resolves (with success or with failure), none of step,
\* article, drafts, evaluation result, loading, error and countdown.
C1_StaleFetchChangesNothing ==
    [][(FetchResolved(last') /\ last'.stale) => UNCHANGED session]_vars

\* C2: the successful result of an evaluator call that was superseded by a
\* start-new-session is discarded: it stores no evaluation result and does
\* not move the step to Feedback.
C2_StaleEvaluationDiscarded ==
    [][(last'.op = "evaluateSucceeded" /\ last'.stale)
         => /\ feedback' = feedback
            /\ (step' = FEEDBACK => step = FEEDBACK)]_vars

\* C3: a provider or evaluator call that fails after its session was
\* superseded changes no state: error is not set, step is not changed,
\* loading is not cleared.
C3_StaleFailureChangesNothing ==
    [][(last'.op \in {"fetchFailed", "evaluateFailed"} /\ last'.stale)
         => UNCHANGED <<error, step, loading, article, oneSentence, threeLines,
                        feedback, countdown>>]_vars

\* C4: in every reachable state at most one provider call and at most one
\* evaluator call is outstanding.
C4_AtMostOneCallOfEachKind ==
    Len(fetchCalls) <= 1 /\ Len(evaluateCalls) <= 1

----------------------------------------------------------------------------
(* Transitions *)

\* The transitions of the table, each with its trigger.
ListedTransition(from, to, op) ==
    \/ to = FETCHING /\ op = "startNewSession"
    \/ from = FETCHING /\ to = READING /\ op = "fetchSucceeded"
    \/ from = FETCHING /\ to = INTRO /\ op = "fetchFailed"
    \/ from = READING /\ to = SUMMARY_ONE /\ op = "advanceToSummaryOne"
    \/ from = SUMMARY_ONE /\ to = SUMMARY_THREE /\ op = "advanceToSummaryThree"
    \/ from = SUMMARY_ONE /\ to = READING /\ op = "goBackToReading"
    \/ from = SUMMARY_THREE /\ to = SUMMARY_ONE /\ op = "goBackToSummaryOne"
    \/ from = SUMMARY_THREE /\ to = FEEDBACK /\ op = "evaluateSucceeded"

\* C5: every change of the current step is one of the listed transitions.
C5_OnlyListedTransitions ==
    [][step' # step => ListedTransition(step, step', last'.op)]_vars

\* C6: start-new-session, from whatever step and state it is issued, yields
\* step = Fetching with article = null, both drafts empty, evaluation
\* result = null, error = null and countdown = 10.
C6_StartNewSessionResets ==
    last.op = "startNewSession" =>
        /\ step = FETCHING
        /\ article = null
        /\ oneSentence = << >>
        /\ threeLines = << >>
        /\ feedback = null
        /\ error = null
        /\ countdown = 10

\* start-new-session issued on the three-line screen while the evaluation of
\* two non-empty drafts is in flight
C6_Witness ==
    /\ last.op = "startNewSession"
    /\ last.from = SUMMARY_THREE
    /\ \E i \in 1..Len(evaluateCalls) :
          /\ evaluateCalls[i].oneSentence # << >>
          /\ evaluateCalls[i].threeLines # << >>

----------------------------------------------------------------------------
(* Failures and results *)

\* C7: whenever a provider call completes with a Failure, the resulting
\* state has step = Intro, error non-null and loading = false.
C7_FetchFailureGoesToIntro ==
    last.op = "fetchFailed" => step = INTRO /\ error # null /\ ~loading

\* a provider call of the current session failed while the session was fetching
C7_Witness ==
    last.op = "fetchFailed" /\ last.from = FETCHING /\ ~last.stale

\* C8: whenever an evaluator call completes with a Failure, the resulting
\* state has step = SummaryThree, error non-null, loading = false, and both
\* drafts as they were at the submit that started the call.
C8_EvaluateFailureStaysOnSummaryThree ==
    last.op = "evaluateFailed" =>
        /\ step = SUMMARY_THREE
        /\ error # null
        /\ ~loading
        /\ oneSentence = last.call[1].oneSentence
        /\ threeLines = last.call[1].threeLines

\* C9: whenever a submit with valid drafts is answered by the evaluator with
\* a result, the resulting state has step = Feedback, loading = false,
\* error = null and the stored result is the returned one, also when an
\* earlier submit of the same session had failed.
C9_EvaluateSuccessShowsFeedbackWithoutError ==
    (last.op = "evaluateSucceeded" /\ ~last.stale /\ last.from = SUMMARY_THREE) =>
        /\ step = FEEDBACK
        /\ ~loading
        /\ error = null
        /\ feedback = last.result

\* C10: in every reachable state the evaluation result is non-null if and
\* only if step = Feedback.
C10_FeedbackIffFeedbackStep ==
    (feedback # null) <=> (step = FEEDBACK)

----------------------------------------------------------------------------
(* The article *)

\* C11: in every reachable state whose step is Reading, SummaryOne,
\* SummaryThree or Feedback, the article is non-null.
C11_ArticlePresentAfterFetching ==
    step \in {READING, SUMMARY_ONE, SUMMARY_THREE, FEEDBACK} => article # null

----------------------------------------------------------------------------
(* The two summary screens, with texts around the two thresholds *)

MaxPad == 1

\* Body lengths just below and at each threshold, and the empty body.
BodyLengths ==
    {0} \cup ((ONE_SENTENCE_MIN - 3)..ONE_SENTENCE_MIN)
        \cup ((THREE_LINES_MIN - 3)..THREE_LINES_MIN)

Terminators == {<< >>, <<".">>, <<"?">>}

\* White space, letters, an optional terminator, white space.
TypedTexts ==
    { Rep(" ", l) \o Rep("a", n) \o e \o Rep("\n", r) :
        l \in 0..MaxPad, n \in BodyLengths, e \in Terminators, r \in 0..MaxPad }

\* The session on the one-sentence screen, right after start, a resolved
\* fetch and the advance button.
SummaryInit ==
    /\ step = SUMMARY_ONE
    /\ article \in {Some(a) : a \in NewsArticle}
    /\ oneSentence = << >>
    /\ threeLines = << >>
    /\ feedback = null
    /\ loading = FALSE
    /\ error = null
    /\ countdown = INITIAL_COUNTDOWN
    /\ timers = 0
    /\ fetchCalls = << >>
    /\ evaluateCalls = << >>
    /\ last = [op |-> "advanceToSummaryOne", from |-> READING, stale |-> FALSE,
               call |-> null, result |-> null]

SummaryNext ==
    \/ \E t \in TypedTexts : EditOneSentence(t)
    \/ AdvanceToSummaryThree
    \/ \E t \in TypedTexts : EditThreeLines(t)
    \/ GoBackToSummaryOne

SummarySpec == SummaryInit /\ [][SummaryNext]_vars

\* C12: for every text t the one-sentence validity flag equals
\* (trim(t).length >= 10 and (t contains '.' or t contains '?')); a trimmed
\* text of length >= 10 whose only terminator is a question mark is valid.
C12_OneSentenceValidRule ==
    isOneSentenceValid(oneSentence)
        <=> /\ Len(trim(oneSentence)) >= 10
            /\ (includes(oneSentence, ".") \/ includes(oneSentence, "?"))

\* C13: for every text t the three-lines validity flag equals
\* (trim(t).length >= 20 and (t contains '.' or t contains '?')).
C13_ThreeLinesValidRule ==
    isThreeLinesValid(threeLines)
        <=> /\ Len(trim(threeLines)) >= 20
            /\ (includes(threeLines, ".") \/ includes(threeLines, "?"))

----------------------------------------------------------------------------
(* The gates *)

\* The rules of the two gates as the specification words them.
OneSentenceRule(t) == Len(trim(t)) >= 10 /\ (includes(t, ".") \/ includes(t, "?"))
ThreeLinesRule(t) == Len(trim(t)) >= 20 /\ (includes(t, ".") \/ includes(t, "?"))

\* C14: the transition SummaryOne -> SummaryThree is taken only in a state
\* where the one-sentence draft is valid, and an evaluator call is started
\* only in a state where step = SummaryThree and the three-lines draft is
\* valid.
C14_GatedAdvanceAndSubmit ==
    /\ last.op = "advanceToSummaryThree" =>
          /\ last.from = SUMMARY_ONE
          /\ isOneSentenceValid(oneSentence) /\ OneSentenceRule(oneSentence)
    /\ last.op = "handleEvaluate" =>
          /\ last.from = SUMMARY_THREE
          /\ isThreeLinesValid(last.call[1].threeLines)
          /\ ThreeLinesRule(last.call[1].threeLines)
    /\ \A i \in 1..Len(evaluateCalls) :
          isThreeLinesValid(evaluateCalls[i].threeLines)

\* an evaluator call was just started from the three-lines screen, after
\* the one-sentence gate was passed
C14_Witness ==
    /\ last.op = "handleEvaluate"
    /\ last.from = SUMMARY_THREE
    /\ Len(evaluateCalls) = 1
    /\ isOneSentenceValid(oneSentence)

----------------------------------------------------------------------------
(* Editing *)

\* On each summary screen every text of the model can be typed.
EditAccepted ==
    /\ (ScreenShown /\ step = SUMMARY_ONE) =>
          \A t \in OneSentenceTexts : ENABLED EditOneSentence(t)
    /\ (ScreenShown /\ step = SUMMARY_THREE) =>
          \A t \in ThreeLinesTexts : ENABLED EditThreeLines(t)

\* An edit sets its draft to the given text and changes nothing else.
EditEffect ==
    /\ last'.op = "editOneSentence" =>
          /\ step = SUMMARY_ONE
          /\ oneSentence' = last'.result[1]
          /\ UNCHANGED <<step, threeLines, article, feedback, loading, error, countdown>>
    /\ last'.op = "editThreeLines" =>
          /\ step = SUMMARY_THREE
          /\ threeLines' = last'.result[1]
          /\ UNCHANGED <<step, oneSentence, article, feedback, loading, error, countdown>>

\* C15: validation never blocks editing: in SummaryOne an
\* edit-one-sentence(text) intent, and in SummaryThree an
\* edit-three-lines(text) intent, is accepted for every text whether valid
\* or not, sets that draft to exactly the given text, and leaves step, the
\* other draft, article, evaluation result, loading, error and countdown
\* unchanged.
C15_EditingNeverBlocked == []EditAccepted /\ [][EditEffect]_vars

\* an invalid text was typed over a valid one-sentence draft
C15_Witness ==
    /\ last.op = "editOneSentence"
    /\ ~isOneSentenceValid(oneSentence)
    /\ oneSentence = last.result[1]
    /\ threeLines # << >>

----------------------------------------------------------------------------
(* What each handler leaves alone *)

\* C16: the two drafts change only by an explicit edit or by the reset of
\* start-new-session: advance, go-back, submit, a countdown tick and the
\* completion (success or failure) of a provider or evaluator call leave
\* both drafts unchanged.
C16_DraftsChangeOnlyByEditOrReset ==
    [][/\ last'.op \notin {"editOneSentence", "editThreeLines", "startNewSession"}
            => UNCHANGED <<oneSentence, threeLines>>
       /\ last'.op = "editOneSentence" => UNCHANGED threeLines
       /\ last'.op = "editThreeLines" => UNCHANGED oneSentence]_vars

\* an evaluator call failed and both typed drafts are still there
C16_Witness ==
    /\ last.op = "evaluateFailed"
    /\ oneSentence = last.call[1].oneSentence /\ oneSentence # << >>
    /\ threeLines = last.call[1].threeLines /\ threeLines # << >>


\* C17: once an article has been stored for a session it is never changed
\* until the next start-new-session: advance, go-back, edits, submit,
\* countdown ticks and evaluator completions leave the article unchanged.
C17_ArticleFixedUntilRestart ==
    [][/\ (article # null /\ article' # article) => last'.op = "startNewSession"
       /\ last'.op \in {"advanceToSummaryOne", "goBackToReading", "advanceToSummaryThree",
                        "goBackToSummaryOne", "editOneSentence", "editThreeLines",
                        "handleEvaluate", "tick", "evaluateSucceeded", "evaluateFailed"}
            => UNCHANGED article]_vars

----------------------------------------------------------------------------
(* The countdown *)

\* C18: while step = Fetching every timer tick with countdown > 0 decreases
\* countdown by exactly 1, countdown stays within 0..10 and never goes below
\* 0, and in every step other than Fetching no tick changes countdown.
C18_CountdownTicks ==
    /\ [](countdown \in 0..10)
    /\ [][last'.op = "tick" =>
            /\ step = FETCHING /\ step' = FETCHING
            /\ countdown > 0
            /\ countdown' = countdown - 1]_vars
    /\ [][(step # FETCHING /\ last'.op # "startNewSession") => UNCHANGED countdown]_vars

\* the tick that brings the countdown to its floor
C18_Witness ==
    last.op = "tick" /\ step = FETCHING /\ countdown = 0


\* C19: in every reachable state at most one countdown timer exists, and
\* none exists when step is not Fetching: the timer is released on every
\* exit from Fetching, whether by provider success, provider failure, or a
\* transition caused by another call's completion or a restart.
C19_OneTimerOnlyWhileFetching ==
    /\ timers <= 1
    /\ step # FETCHING => timers = 0

\* Fetching was left, with the countdown still above 0, by the completion of
\* an evaluator call of an earlier session, and the timer is gone
C19_Witness ==
    /\ last.op = "evaluateSucceeded"
    /\ last.from = FETCHING
    /\ step # FETCHING
    /\ countdown > 0
    /\ timers = 0


\* The completions of calls, and start-new-session.
LeavesFetching(op) ==
    op \in {"fetchSucceeded", "fetchFailed", "evaluateSucceeded", "evaluateFailed",
            "startNewSession"}

----------------------------------------------------------------------------
(* Failures *)

\* C21: the state reached by a provider failure holds no article
\* (article = null after every rejected fetch).
C21_NoArticleAfterFetchFailure ==
    last.op = "fetchFailed" => article = null


----------------------------------------------------------------------------
(* The services: what the generative model answered, and what
   fetchRandomChosunArticle and evaluateSummaries make of it.  A text is a
   sequence of tokens; a JSON text is given by the value it denotes. *)

MaxTextLen == 4

Tokens == {"TITLE:", "URL:", "CONTENT:", "\n", "x"}

\* response.text of the free-form call ('' when it is undefined)
UpstreamTexts == UNION { [1..n -> Tokens] : n \in 0..MaxTextLen }

\* generateContent rejected; response.text undefined; text that is no JSON;
\* text that is the JSON of value v; free-form text
REJECTED == [kind |-> "rejected"]
UNDEFINED == [kind |-> "undefined"]
MALFORMED == [kind |-> "malformed"]
Json(v) == [kind |-> "json", value |-> v]
Text(t) == [kind |-> "text", tokens |-> t]

Resolve(v) == [ok |-> TRUE, value |-> v]
Reject == [ok |-> FALSE]

\* JSON.parse(response.text || '{}')
JSONparse(response) ==
    CASE response = MALFORMED -> Reject
      [] response = UNDEFINED -> Resolve(<< >>)
      [] OTHER                -> Resolve(response.value)

\* result.f || placeholder
OrElse(result, f, placeholder) ==
    IF f \in DOMAIN result /\ result[f] # << >> THEN result[f] ELSE placeholder

TITLE_PLACEHOLDER == <<"no-article-found">>
CONTENT_PLACEHOLDER == <<"content-not-loaded">>
URL_PLACEHOLDER == <<"https://www.chosun.com">>
PARSE_ERROR_ARTICLE ==
    [title |-> <<"error">>, content |-> <<"parse-error">>, url |-> URL_PLACEHOLDER,
     source |-> "chosun"]

WithPlaceholders(result) ==
    [title   |-> OrElse(result, "title", TITLE_PLACEHOLDER),
     content |-> OrElse(result, "content", CONTENT_PLACEHOLDER),
     url     |-> OrElse(result, "url", URL_PLACEHOLDER),
     source  |-> "chosun"]

\* index of the first token equal to label, 0 when there is none
IndexOf(text, label) ==
    IF \E i \in 1..Len(text) : text[i] = label
    THEN CHOOSE i \in 1..Len(text) :
            text[i] = label /\ \A j \in 1..(i - 1) : text[j] # label
    ELSE 0

\* (.*) : up to the end of the line
RestOfLine(text) ==
    LET n == IndexOf(text, "\n") IN IF n = 0 THEN text ELSE SubSeq(text, 1, n - 1)

\* text.match(/LABEL:\s*(.*)/) : null, or the capture
MatchLine(text, label) ==
    LET i == IndexOf(text, label)
    IN  IF i = 0 THEN null
        ELSE Some(RestOfLine(TrimStart(SubSeq(text, i + 1, Len(text)))))

\* text.match(/LABEL:\s*([\s\S]*)/) : null, or the capture
MatchRest(text, label) ==
    LET i == IndexOf(text, label)
    IN  IF i = 0 THEN null ELSE Some(TrimStart(SubSeq(text, i + 1, Len(text))))

\* fetchRandomChosunArticle, free-form answer parsed by regex, JSON fallback
fetchRandomChosunArticle_Regex(response, fallbackResponse) ==
    IF response = REJECTED THEN Reject
    ELSE
      LET text == IF response = UNDEFINED THEN << >> ELSE response.tokens
          titleMatch == MatchLine(text, "TITLE:")
          urlMatch == MatchLine(text, "URL:")
          contentMatch == MatchRest(text, "CONTENT:")
      IN  IF titleMatch # null /\ urlMatch # null /\ contentMatch # null
          THEN Resolve([title |-> trim(titleMatch[1]), url |-> trim(urlMatch[1]),
                        content |-> trim(contentMatch[1]), source |-> "chosun"])
          ELSE IF fallbackResponse = REJECTED THEN Reject
          ELSE LET result == JSONparse(fallbackResponse)
               IN  IF result.ok THEN Resolve(WithPlaceholders(result.value)) ELSE Reject

\* fetchRandomChosunArticle, JSON mode, parse errors caught
fetchRandomChosunArticle_Json(response) ==
    IF response = REJECTED THEN Reject
    ELSE LET result == JSONparse(response)
         IN  IF result.ok THEN Resolve(WithPlaceholders(result.value))
             ELSE Resolve(PARSE_ERROR_ARTICLE)

TITLE_PLACEHOLDER_FAST == <<"article-not-fetched">>
CONTENT_PLACEHOLDER_FAST == <<"search-failed-try-again">>

\* fetchRandomChosunArticle, JSON mode, parse errors rethrown
fetchRandomChosunArticle_Fast(response) ==
    IF response = REJECTED THEN Reject
    ELSE LET result == JSONparse(response)
         IN  IF result.ok
             THEN Resolve([title   |-> OrElse(result.value, "title", TITLE_PLACEHOLDER_FAST),
                           content |-> OrElse(result.value, "content", CONTENT_PLACEHOLDER_FAST),
                           url     |-> OrElse(result.value, "url", URL_PLACEHOLDER),
                           source  |-> "chosun"])
             ELSE Reject

\* evaluateSummaries
evaluateSummaries(response) ==
    IF response = REJECTED THEN Reject ELSE JSONparse(response)

ArticleFields == {"title", "content", "url"}
FieldValues == {<< >>, <<"x">>}
ArticleObjects == UNION { [D -> FieldValues] : D \in SUBSET ArticleFields }
ArticleResponses == {REJECTED, UNDEFINED, MALFORMED} \cup { Json(o) : o \in ArticleObjects }
FreeFormResponses == {REJECTED, UNDEFINED} \cup { Text(t) : t \in UpstreamTexts }

\* the awaited provider call of startNewSession settles with outcome
FetchSettled(i, outcome) ==
    IF outcome.ok THEN FetchSucceeded(i, outcome.value) ELSE FetchFailed(i)

FetchRegexResponds(i, response, fallbackResponse) ==
    FetchSettled(i, fetchRandomChosunArticle_Regex(response, fallbackResponse))

FetchJsonResponds(i, response) ==
    FetchSettled(i, fetchRandomChosunArticle_Json(response))

FetchFastResponds(i, response) ==
    FetchSettled(i, fetchRandomChosunArticle_Fast(response))

ProviderNext ==
    \/ StartNewSession
    \/ \E i \in 1..Len(fetchCalls) : \E response \in FreeFormResponses :
         \E fallbackResponse \in ArticleResponses :
           FetchRegexResponds(i, response, fallbackResponse)
    \/ \E i \in 1..Len(fetchCalls) : \E response \in ArticleResponses :
         FetchJsonResponds(i, response)
    \/ \E i \in 1..Len(fetchCalls) : \E response \in ArticleResponses :
         FetchFastResponds(i, response)
    \/ AdvanceToSummaryOne
    \/ GoBackToReading
    \/ Tick

ProviderSpec == Init /\ [][ProviderNext]_vars


\* C24: every article the provider resolves with has a non-empty title,
\* content and url and the source of the newspaper, on the regex path too.
C24_ArticleFieldsNeverEmpty ==
    last.op = "fetchSucceeded" =>
        LET data == last.result[1]
        IN  /\ data.title # << >>
            /\ data.content # << >>
            /\ data.url # << >>
            /\ data.source = "chosun"


\* the provider call i settles on an answer that cannot be parsed
UnparsableAnswer(i) ==
    \/ FetchJsonResponds(i, MALFORMED)
    \/ FetchFastResponds(i, MALFORMED)
    \/ FetchRegexResponds(i, UNDEFINED, MALFORMED)

\* C22: an unparsable provider answer is a fetch failure: the step returns to
\* Intro with an error, and no article, real or placeholder, is stored and
\* shown in Reading.
C22_UnparsableAnswerIsFetchFailure ==
    [][\A i \in 1..Len(fetchCalls) :
          UnparsableAnswer(i) =>
              /\ step' = INTRO
              /\ error' # null
              /\ ~(step' = READING /\ article' # null)]_vars


RequiredFields == {"oneSentenceFeedback", "threeLinesFeedback", "estimatedAge", "ageComment"}
FeedbackFields == {"score", "comments", "suggestedSummary"}

\* the object r without its field f
Without(r, f) == [g \in (DOMAIN r) \ {f} |-> r[g]]

\* the values the evaluator's JSON answer can denote: complete results, and
\* results that lack a field
EvaluationObjects ==
    EvaluationResult
      \cup { Without(r, f) : r \in EvaluationResult, f \in RequiredFields }
      \cup { [r EXCEPT !.threeLinesFeedback = Without(@, "suggestedSummary")] :
                r \in EvaluationResult }
EvaluationResponses ==
    {REJECTED, UNDEFINED, MALFORMED} \cup { Json(o) : o \in EvaluationObjects }

\* the awaited evaluator call of handleEvaluate settles on the service's outcome
EvaluateResponds(i, response) ==
    LET outcome == evaluateSummaries(response)
    IN  IF outcome.ok THEN EvaluateSucceeded(i, outcome.value) ELSE EvaluateFailed(i)

EvaluatorInit ==
    /\ step = SUMMARY_THREE
    /\ article \in { Some(data) : data \in NewsArticle }
    /\ oneSentence = SentenceText
    /\ threeLines = << >>
    /\ feedback = null
    /\ loading = FALSE
    /\ error = null
    /\ countdown = INITIAL_COUNTDOWN
    /\ timers = 0
    /\ fetchCalls = << >>
    /\ evaluateCalls = << >>
    /\ last = [op |-> "advanceToSummaryThree", from |-> SUMMARY_ONE, stale |-> FALSE,
               call |-> null, result |-> null]

EvaluatorNext ==
    \/ GoBackToSummaryOne
    \/ \E t \in OneSentenceTexts : EditOneSentence(t)
    \/ AdvanceToSummaryThree
    \/ \E t \in ThreeLinesTexts : EditThreeLines(t)
    \/ HandleEvaluate
    \/ \E i \in 1..Len(evaluateCalls) : \E response \in EvaluationResponses :
         EvaluateResponds(i, response)

EvaluatorSpec == EvaluatorInit /\ [][EvaluatorNext]_vars

\* the result r has every required field
Complete(r) ==
    /\ RequiredFields \subseteq DOMAIN r
    /\ FeedbackFields \subseteq DOMAIN r.oneSentenceFeedback
    /\ FeedbackFields \subseteq DOMAIN r.threeLinesFeedback

\* C23: the session never shows Feedback with a result that lacks a required
\* field; an evaluator answer that lacks one (the empty answer included) is
\* an evaluation failure.
C23_IncompleteResultIsFailure ==
    (step = FEEDBACK /\ feedback # null) => Complete(feedback[1])


----------------------------------------------------------------------------
(* Evaluation *)

\* the evaluator call of the current session, if one is outstanding
CurrentEvaluation == { i \in 1..Len(evaluateCalls) : ~evaluateCalls[i].stale }

\* C25: submit on SummaryThree sets loading and leaves the step on
\* SummaryThree for as long as the evaluator call is outstanding, and the
\* call carries the session's article and drafts as they are at submit.
C25_SubmitLoadsOnSummaryThree ==
    /\ last.op = "handleEvaluate" =>
          /\ last.from = SUMMARY_THREE
          /\ article # null
          /\ last.call = Some([article |-> article[1], oneSentence |-> oneSentence,
                               threeLines |-> threeLines, stale |-> FALSE])
          /\ evaluateCalls # << >>
          /\ evaluateCalls[Len(evaluateCalls)] = last.call[1]
    /\ \A i \in CurrentEvaluation : step = SUMMARY_THREE /\ loading


\* C26: after an evaluator failure of the current session the user can
\* retry as is: submit is enabled again, and the article and both drafts are
\* those the failed call carried.
C26_RetryAfterEvaluateFailure ==
    (last.op = "evaluateFailed" /\ ~last.stale) =>
        /\ ENABLED HandleEvaluate
        /\ article = Some(last.call[1].article)
        /\ oneSentence = last.call[1].oneSentence
        /\ threeLines = last.call[1].threeLines


----------------------------------------------------------------------------
(* Recovery and the initial state *)

\* C27: in every state with an error the retry (start-new-session) intent is
\* enabled, and taking it gives step = Fetching with error = null and a new
\* provider call started.  (Len(fetchCalls) < MaxFetchCalls is the bound of
\* the model on the calls in flight.)
C27_RetryAlwaysOffered ==
    /\ (error # null /\ Len(fetchCalls) < MaxFetchCalls) => ENABLED StartNewSession
    /\ last.op = "startNewSession" =>
          /\ step = FETCHING
          /\ error = null
          /\ fetchCalls # << >>
          /\ ~fetchCalls[Len(fetchCalls)].stale

\* the retry button pressed on the fetch screen, where no other button that
\* starts a session is shown
C27_Witness ==
    /\ last.op = "startNewSession"
    /\ last.from = FETCHING
    /\ error = null
    /\ Len(fetchCalls) = 2

\* C28: the initial state is Intro with no article, empty drafts, no
\* result, loading off, no error, the countdown at 10, and nothing
\* outstanding.
C28_InitialState ==
    last.op = "mount" =>
        /\ step = INTRO
        /\ article = null
        /\ oneSentence = << >> /\ threeLines = << >>
        /\ feedback = null
        /\ loading = FALSE
        /\ error = null
        /\ countdown = 10
        /\ fetchCalls = << >> /\ evaluateCalls = << >> /\ timers = 0

C28_Witness ==
    /\ last.op = "mount"
    /\ step = INTRO
    /\ ~ENABLED Tick
    /\ ENABLED StartNewSession


----------------------------------------------------------------------------
(* Progress: every call that was started settles *)

FetchSettles ==
    \/ \E i \in 1..Len(fetchCalls) : \E data \in NewsArticle : FetchSucceeded(i, data)
    \/ \E i \in 1..Len(fetchCalls) : FetchFailed(i)

EvaluateSettles ==
    \/ \E i \in 1..Len(evaluateCalls) : \E result \in EvaluationResult :
         EvaluateSucceeded(i, result)
    \/ \E i \in 1..Len(evaluateCalls) : EvaluateFailed(i)

\* The component with the drafts typed from one valid text each: what is
\* typed has no part in leaving Fetching.
LiveNext ==
    \/ StartNewSession
    \/ FetchSettles
    \/ AdvanceToSummaryOne
    \/ GoBackToReading
    \/ EditOneSentence(SentenceText)
    \/ AdvanceToSummaryThree
    \/ GoBackToSummaryOne
    \/ EditThreeLines(LongText)
    \/ HandleEvaluate
    \/ EvaluateSettles
    \/ Tick

LiveSpec == Init /\ [][LiveNext]_vars /\ WF_vars(FetchSettles) /\ WF_vars(EvaluateSettles)

\* C29: when every started call settles, Fetching is always left again, and
\* with no call outstanding the step is not Fetching.
C29_FetchingIsLeft ==
    /\ (step = FETCHING) ~> (step # FETCHING)
    /\ []((fetchCalls = << >> /\ evaluateCalls = << >>) => step # FETCHING)

\* a provider call that settled after the countdown had run out
C29_Witness ==
    /\ last.op \in {"fetchSucceeded", "fetchFailed"}
    /\ last.from = FETCHING
    /\ countdown = 0
    /\ step # FETCHING
    /\ fetchCalls = << >> /\ evaluateCalls = << >>

\* C30: on the fetch screen loading is always true, also when an evaluator
\* call of an earlier session settles during Fetching.
C30_FetchingShowsLoading ==
    step = FETCHING => loading


----------------------------------------------------------------------------
(* Loading, the screens' guards, and the result shown *)

\* C31: loading is true exactly when a provider or evaluator call is
\* outstanding.
C31_LoadingIffCallOutstanding ==
    loading <=> (fetchCalls # << >> \/ evaluateCalls # << >>)

\* C32: on Reading, SummaryOne and SummaryThree the article is present, so
\* handleEvaluate never returns early: whenever the submit button is enabled
\* (screen not loading, three-lines draft valid) a submit starts an evaluator
\* call.  (Len(evaluateCalls) < MaxEvaluateCalls is the bound of the model on
\* the calls in flight.)
C32_ArticlePresentOnStepScreens ==
    /\ step \in {READING, SUMMARY_ONE, SUMMARY_THREE} => article # null
    /\ (/\ ~loading
        /\ step = SUMMARY_THREE
        /\ isThreeLinesValid(threeLines)
        /\ Len(evaluateCalls) < MaxEvaluateCalls) => ENABLED HandleEvaluate
    /\ last.op = "handleEvaluate" =>
          evaluateCalls # << >> /\ evaluateCalls[Len(evaluateCalls)] = last.call[1]

\* a submit made while a call of an earlier session is still in flight
C32_Witness ==
    /\ last.op = "handleEvaluate"
    /\ step = SUMMARY_THREE
    /\ article # null
    /\ Len(evaluateCalls) = 2

\* C33: on SummaryThree the one-sentence draft is valid, so every evaluator
\* call carries two valid drafts.
C33_OneSentenceValidOnSummaryThree ==
    /\ step = SUMMARY_THREE => isOneSentenceValid(oneSentence)
    /\ last.op = "handleEvaluate" =>
          /\ isOneSentenceValid(last.call[1].oneSentence)
          /\ isThreeLinesValid(last.call[1].threeLines)

\* a submit whose call carries two valid drafts
C33_Witness ==
    /\ last.op = "handleEvaluate"
    /\ isOneSentenceValid(oneSentence)
    /\ isThreeLinesValid(threeLines)
    /\ oneSentence = last.call[1].oneSentence

\* C34: only startNewSession clears the error: once set it stays across
\* edits, advance, go back, submit and a successful evaluation.
C34_ErrorClearedOnlyByStart ==
    [][(error # null /\ error' = null) => last'.op = "startNewSession"]_vars

\* an error that outlived a successful evaluation of the same session
C34_Witness ==
    /\ error # null
    /\ last.op = "evaluateSucceeded"
    /\ ~last.stale
    /\ step = FEEDBACK

\* C35: while loading, the edit, advance, go-back and submit intents are
\* disabled, so no second submit is possible while the session's evaluator
\* call is outstanding.
C35_NoIntentWhileLoading ==
    /\ loading =>
          /\ ~ENABLED (\E t \in OneSentenceTexts : EditOneSentence(t))
          /\ ~ENABLED (\E t \in ThreeLinesTexts : EditThreeLines(t))
          /\ ~ENABLED AdvanceToSummaryOne
          /\ ~ENABLED AdvanceToSummaryThree
          /\ ~ENABLED GoBackToReading
          /\ ~ENABLED GoBackToSummaryOne
          /\ ~ENABLED HandleEvaluate
    /\ CurrentEvaluation # {} => ~ENABLED HandleEvaluate

\* C36: on Feedback the stored result is that of an evaluator call made with
\* the current article and the current two drafts.
C36_FeedbackBelongsToDrafts ==
    (step = FEEDBACK /\ last.op = "evaluateSucceeded") =>
        /\ feedback = last.result
        /\ article = Some(last.call[1].article)
        /\ oneSentence = last.call[1].oneSentence
        /\ threeLines = last.call[1].threeLines

=============================================================================
